---- MODULE Spec2Model ----
(***************************************************************************)
(* Link-and-backup engine of the dotfile manager.                          *)
(*                                                                         *)
(* Two programs share the engine; mode says which one runs:                *)
(*   "topic"    src/src/main.rs            topic-directory mode            *)
(*   "mapping"  src/src/dotfile_manager.rs explicit-mapping mode           *)
(*                                                                         *)
(* The filesystem is a function from paths to entries.  A path is the      *)
(* sequence of its components below the home directory, so <<>> is <home>. *)
(* An entry is [kind, val]: val is the content of a regular file (a token  *)
(* naming where the content was first stored), the target of a symlink,    *)
(* and <<>> for a directory.                                               *)
(*                                                                         *)
(* Scope: the home directory holds no symlink to a directory, and no       *)
(* modelled name equals "dotfiles" or ".dotfiles_backup" below a topic, so *)
(* target paths never lie inside the source tree or the backup root.       *)
(* fs::read_dir's order is a property of the filesystem: it is chosen once *)
(* (ascending or descending by name) and is the same in every run.         *)
(***************************************************************************)
EXTENDS Naturals, Sequences, FiniteSets

VARIABLES mode, fs, rev, cfg, run, pc, units, stack, cur, start, outcomes, processed,
          linked, linkedPrev, listing, advised

vars == <<mode, fs, rev, cfg, run, pc, units, stack, cur, start, outcomes, processed,
          linked, linkedPrev, listing, advised>>

(***************************************************************************)
(* Bounds of the model.                                                    *)
(***************************************************************************)
\* regular files in the source tree of a topic-mode run
MaxSrcFiles == 2
\* entries that exist in the home directory before the first run
MaxPre == 2
\* successive runs of the program
MaxRuns == 2
\* entries of config.toml
MaxMappings == 2

(***************************************************************************)
(* Paths.                                                                  *)
(***************************************************************************)
Home == <<>>

DotfilesDir == Home \o <<"dotfiles">>

BackupRoot == Home \o <<".dotfiles_backup">>

\* chrono::Local::now().format("%Y%m%d_%H%M%S"): one stamp per run
Stamp(r) == <<"t1", "t2", "t3", "t4">>[r]

BackupDir(r) == BackupRoot \o <<Stamp(r)>>

SecretsPath == Home \o <<".secrets">>

ConfigPath == DotfilesDir \o <<"config.toml">>

IsPrefix(p, q) == Len(p) <= Len(q) /\ SubSeq(q, 1, Len(p)) = p

Parent(p) == SubSeq(p, 1, Len(p) - 1)

FileName(p) == p[Len(p)]

Prefixes(p) == {SubSeq(p, 1, k) : k \in 0..Len(p)}

DirEntry == [kind |-> "dir", val |-> <<>>]

FileEntry(c) == [kind |-> "file", val |-> c]

LinkEntry(t) == [kind |-> "symlink", val |-> t]

(***************************************************************************)
(* Filesystem calls.                                                       *)
(***************************************************************************)
RECURSIVE StatKind(_, _, _)
\* stat(2): the kind of what p names, following symlinks; "none" on error
StatKind(f, p, hops) ==
    IF p \notin DOMAIN f THEN "none"
    ELSE IF f[p].kind = "symlink"
         THEN IF hops = 0 THEN "none" ELSE StatKind(f, f[p].val, hops - 1)
         ELSE f[p].kind

\* Path::exists: follows symlinks, so a symlink whose target is gone does not exist
Exists(f, p) == StatKind(f, p, 3) # "none"

IsDir(f, p) == StatKind(f, p, 3) = "dir"

IsFile(f, p) == StatKind(f, p, 3) = "file"

Children(f, d) == {q \in DOMAIN f : Len(q) = Len(d) + 1 /\ Parent(q) = d}

\* every name a source directory can hold, in ascending order
NameOrder == <<".git", "README", "a", "b", "bash", "config.toml", "nvim", "zellij", "zsh", "zshrc">>

Reverse(s) == [i \in 1..Len(s) |-> s[Len(s) + 1 - i]]

\* fs::read_dir: the names in d, in the filesystem's order
ReadDir(f, d, r) ==
    LET names == {FileName(q) : q \in Children(f, d)}
        asc == SelectSeq(NameOrder, LAMBDA n : n \in names)
    IN IF r THEN Reverse(asc) ELSE asc

\* fs::create_dir_all: an error leaves the filesystem as it was
CreateDirAll(f, p) ==
    IF \E q \in Prefixes(p) : q \in DOMAIN f /\ ~IsDir(f, q)
    THEN [ok |-> FALSE, fs |-> f]
    ELSE [ok |-> TRUE,
          fs |-> [q \in DOMAIN f \cup Prefixes(p) |->
                     IF q \in DOMAIN f THEN f[q] ELSE DirEntry]]

\* rename(2): moves the entry itself (a symlink is not followed) with all below it
RenameAllowed(f, old, new) ==
    /\ old \in DOMAIN f
    /\ IsDir(f, Parent(new))
    /\ ~(IsPrefix(old, new) /\ old # new)
    /\ new \in DOMAIN f =>
          IF f[old].kind = "dir"
          THEN f[new].kind = "dir" /\ Children(f, new) = {}
          ELSE f[new].kind # "dir"

Rename(f, old, new) ==
    IF ~RenameAllowed(f, old, new) THEN [ok |-> FALSE, fs |-> f]
    ELSE LET moved == {q \in DOMAIN f : IsPrefix(old, q)}
             at(q) == new \o SubSeq(q, Len(old) + 1, Len(q))
             back(x) == old \o SubSeq(x, Len(new) + 1, Len(x))
             dom == ((DOMAIN f \ moved) \ {new}) \cup {at(q) : q \in moved}
         IN [ok |-> TRUE,
             fs |-> [x \in dom |-> IF IsPrefix(new, x) THEN f[back(x)] ELSE f[x]]]

\* symlink(2): fails when anything, even a dangling symlink, is at dest
Symlink(f, src, dest) ==
    IF dest \in DOMAIN f \/ ~IsDir(f, Parent(dest))
    THEN [ok |-> FALSE, fs |-> f]
    ELSE [ok |-> TRUE,
          fs |-> [x \in DOMAIN f \cup {dest} |->
                     IF x = dest THEN LinkEntry(src) ELSE f[x]]]

(***************************************************************************)
(* Topic resolution.                                                       *)
(***************************************************************************)
\* a table that lost its "nvim" row
TopicTargetDir_NoNvim(topic) ==
    CASE topic = "zellij" -> Home \o <<".config">> \o <<"zellij">>
      [] OTHER -> Home

\* process_topic's match on the topic name
TopicTargetDir(topic) ==
    CASE topic = "zellij" -> Home \o <<".config">> \o <<"zellij">>
      [] topic = "nvim" -> Home \o <<".config">> \o <<"nvim">>
      [] OTHER -> Home

GetTargetPath(topic, file_name) ==
    CASE topic = "zellij" -> Home \o <<".config">> \o <<"zellij">> \o <<file_name>>
      [] topic = "nvim" -> Home \o <<".config">> \o <<"nvim">> \o <<file_name>>
      [] OTHER -> Home \o <<file_name>>

(***************************************************************************)
(* The states the program starts in.                                       *)
(***************************************************************************)
TopicNames == {"zellij", "nvim", "zsh", "bash", ".git"}

RelFiles == {<<"a">>, <<"b">>, <<"a", "b">>}

\* the topics that hold the one file a; the others hold any of RelFiles
SmallTopics == {"zellij", ".git"}

SrcUniverse ==
    {DotfilesDir \o <<t>> \o r : t \in TopicNames \ SmallTopics, r \in RelFiles}
      \cup {DotfilesDir \o <<t, "a">> : t \in SmallTopics}

PrefixFree(S) == \A p, q \in S : IsPrefix(p, q) => p = q

SourceTrees ==
    {S \in SUBSET SrcUniverse : Cardinality(S) <= MaxSrcFiles /\ PrefixFree(S)}

\* the home path a file of a topic directory is mirrored to
TargetOf(s) == TopicTargetDir(s[2]) \o SubSeq(s, 3, Len(s))

PreKinds == {"file", "dir", "dangling", "link"}

Elsewhere == Home \o <<"elsewhere">>

Gone == Home \o <<"gone">>

PreEntry(p, k) ==
    CASE k = "file" -> FileEntry(<<"old">> \o p)
      [] k = "dir" -> DirEntry
      [] k = "dangling" -> LinkEntry(Gone)
      [] k = "link" -> LinkEntry(Elsewhere)

PreSets(cand) ==
    {P \in SUBSET cand : Cardinality(P) <= MaxPre /\ PrefixFree(P)}

\* the filesystem holding the regular files S with their own content, the
\* entries pre, and every directory above them
BuildFs(S, pre) ==
    LET given == S \cup DOMAIN pre \cup {Elsewhere}
        dom == UNION {Prefixes(p) : p \in given}
    IN [q \in dom |->
           IF q \in DOMAIN pre THEN pre[q]
           ELSE IF q \in S \cup {Elsewhere} THEN FileEntry(q)
           ELSE DirEntry]

NoConfig == [state |-> "none", files |-> <<>>]

NoLink == [src |-> <<>>, dir |-> <<>>]

InitCommon ==
    /\ run = 1
    /\ pc = "idle"
    /\ units = <<>>
    /\ stack = <<>>
    /\ cur = NoLink
    /\ start = fs
    /\ outcomes = <<>>
    /\ processed = {}
    /\ linked = {}
    /\ linkedPrev = {}
    /\ listing = {}
    /\ advised = FALSE

InitTopic ==
    /\ mode = "topic"
    /\ \E S \in SourceTrees :
         \E P \in PreSets({TargetOf(s) : s \in S} \cup {BackupRoot}) :
           \E k \in [P -> PreKinds] :
              fs = BuildFs(S \cup {DotfilesDir \o <<"README">>},
                           [p \in P |-> PreEntry(p, k[p])])
    /\ rev \in BOOLEAN
    /\ cfg = NoConfig
    /\ InitCommon

(***************************************************************************)
(* The run.  pc is the position in install(): "idle" before the call,      *)
(* "units" in install's loop, "walk" in process_directory's loop, "link"   *)
(* at the head of link_file, "symlink" at its symlink call, "done" after   *)
(* Ok(()) and "failed" after an Err left through `?`.                      *)
(***************************************************************************)
\* an Err leaves install through `?`; why names the call that failed
Fail(f, why) ==
    /\ fs' = f
    /\ pc' = "failed"
    /\ units' = <<>>
    /\ stack' = <<>>
    /\ cur' = NoLink
    /\ outcomes' = Append(outcomes, why)

Frame(src, tgt, f) == [src |-> src, tgt |-> tgt, todo |-> ReadDir(f, src, rev)]

\* main.rs install, to the head of its loop
InstallBegin ==
    /\ mode = "topic"
    /\ pc = "idle"
    /\ LET r == CreateDirAll(fs, BackupDir(run))
       IN IF ~r.ok
          THEN Fail(r.fs, "backup_dir")
          ELSE IF ~IsDir(r.fs, DotfilesDir)
          THEN Fail(r.fs, "read_dir")
          ELSE /\ fs' = r.fs
               /\ pc' = "units"
               /\ units' = ReadDir(r.fs, DotfilesDir, rev)
               /\ UNCHANGED <<stack, cur, outcomes>>
    /\ listing' = {}
    /\ UNCHANGED <<mode, rev, cfg, run, start, processed, linked, linkedPrev, advised>>

\* a loop without the test
IsSkipped_Never(topic_name) == FALSE

\* install's test for the version-control directory
IsSkipped(topic_name) == topic_name = ".git"

\* main.rs install, one entry of read_dir(dotfiles_dir), with process_topic
TopicUnit ==
    /\ mode = "topic"
    /\ pc = "units"
    /\ units # <<>>
    /\ LET topic == Head(units)
           path == DotfilesDir \o <<topic>>
       IN IF IsDir(fs, path) /\ ~IsSkipped(topic)
          THEN LET root == TopicTargetDir(topic)
                   r == CreateDirAll(fs, root)
               IN /\ processed' = processed \cup {[topic |-> topic, root |-> root]}
                  /\ IF ~r.ok
                     THEN Fail(r.fs, "mkdir")
                     ELSE /\ fs' = r.fs
                          /\ pc' = "walk"
                          /\ units' = Tail(units)
                          /\ stack' = <<Frame(path, root, r.fs)>>
                          /\ UNCHANGED <<cur, outcomes>>
          ELSE /\ units' = Tail(units)
               /\ UNCHANGED <<fs, pc, stack, cur, outcomes, processed>>
    /\ UNCHANGED <<mode, rev, cfg, run, start, linked, linkedPrev, listing, advised>>

\* a recursion that keeps the parent's target
NewTarget_Flat(target_dir, path) == target_dir

\* process_directory's target for a subdirectory
NewTarget(target_dir, path) == target_dir \o <<FileName(path)>>

\* process_directory, one entry of read_dir(src_dir), or its return
Walk ==
    /\ pc = "walk"
    /\ LET top == Head(stack)
       IN IF top.todo = <<>>
          THEN /\ stack' = Tail(stack)
               /\ pc' = IF Tail(stack) = <<>> THEN "units" ELSE "walk"
               /\ UNCHANGED <<fs, units, cur, outcomes>>
          ELSE LET path == top.src \o <<Head(top.todo)>>
                   rest == [top EXCEPT !.todo = Tail(top.todo)]
               IN IF IsFile(fs, path)
                  THEN /\ cur' = [src |-> path, dir |-> top.tgt]
                       /\ pc' = "link"
                       /\ stack' = <<rest>> \o Tail(stack)
                       /\ UNCHANGED <<fs, units, outcomes>>
                  ELSE IF IsDir(fs, path)
                  THEN LET new_target == NewTarget(top.tgt, path)
                           r == CreateDirAll(fs, new_target)
                       IN IF ~r.ok
                          THEN Fail(r.fs, "mkdir")
                          ELSE /\ fs' = r.fs
                               /\ stack' = <<Frame(path, new_target, r.fs), rest>>
                                              \o Tail(stack)
                               /\ UNCHANGED <<pc, units, cur, outcomes>>
                  ELSE /\ stack' = <<rest>> \o Tail(stack)
                       /\ UNCHANGED <<fs, pc, units, cur, outcomes>>
    /\ UNCHANGED <<mode, rev, cfg, run, start, processed, linked, linkedPrev, listing, advised>>

\* link_file's dest
Dest(c) == c.dir \o <<FileName(c.src)>>

\* a backup directory that is not the run's own
BackupPath_FirstRun(c) == BackupDir(1) \o <<FileName(c.src)>>

\* link_file's backup path
BackupPath(c) == BackupDir(run) \o <<FileName(c.src)>>

\* link_file's test for an entry to back up
MustBackup(f, dest) == Exists(f, dest)

\* link_file up to its symlink call: the backup of an existing dest
LinkBackup ==
    /\ pc = "link"
    /\ IF MustBackup(fs, Dest(cur))
       THEN LET r == Rename(fs, Dest(cur), BackupPath(cur))
            IN IF ~r.ok
               THEN Fail(r.fs, "rename")
               ELSE /\ fs' = r.fs
                    /\ pc' = "symlink"
                    /\ UNCHANGED <<units, stack, cur, outcomes>>
       ELSE /\ pc' = "symlink"
            /\ UNCHANGED <<fs, units, stack, cur, outcomes>>
    /\ UNCHANGED <<mode, rev, cfg, run, start, processed, linked, linkedPrev, listing, advised>>

\* link_file's symlink call and its return
LinkSymlink ==
    /\ pc = "symlink"
    /\ LET r == Symlink(fs, cur.src, Dest(cur))
       IN IF ~r.ok
          THEN Fail(r.fs, "symlink") /\ UNCHANGED linked
          ELSE /\ fs' = r.fs
               /\ pc' = IF stack = <<>> THEN "units" ELSE "walk"
               /\ cur' = NoLink
               /\ linked' = linked \cup {[dest |-> Dest(cur), src |-> cur.src]}
               /\ UNCHANGED <<units, stack, outcomes>>
    /\ UNCHANGED <<mode, rev, cfg, run, start, processed, linkedPrev, listing, advised>>

\* install's tail: check_secrets and Ok(())
Finish ==
    /\ pc = "units"
    /\ units = <<>>
    /\ advised' = ~Exists(fs, SecretsPath)
    /\ pc' = "done"
    /\ outcomes' = Append(outcomes, "done")
    /\ UNCHANGED <<mode, fs, rev, cfg, run, units, stack, cur, start, processed,
                   linked, linkedPrev, listing>>

\* the program is started again: DotfileManager::new takes a new stamp
Rerun ==
    /\ pc \in {"done", "failed"}
    /\ run < MaxRuns
    /\ run' = run + 1
    /\ pc' = "idle"
    /\ start' = fs
    /\ processed' = {}
    /\ linkedPrev' = linked
    /\ linked' = {}
    /\ listing' = {}
    /\ advised' = FALSE
    /\ UNCHANGED <<mode, fs, rev, cfg, units, stack, cur, outcomes>>

\* main.rs list_configs: the lines printed for the files of every topic
ListConfigs ==
    /\ mode = "topic"
    /\ pc \in {"idle", "done", "failed"}
    /\ IsDir(fs, DotfilesDir)
    /\ listing' =
          UNION {{[topic |-> FileName(d), source |-> file,
                   target |-> GetTargetPath(FileName(d), FileName(file)),
                   installed |-> Exists(fs, GetTargetPath(FileName(d), FileName(file)))] :
                     file \in {x \in Children(fs, d) : IsFile(fs, x)}} :
                   d \in {e \in Children(fs, DotfilesDir) :
                            IsDir(fs, e) /\ FileName(e) # ".git"}}
    /\ UNCHANGED <<mode, fs, rev, cfg, run, pc, units, stack, cur, start, outcomes,
                   processed, linked, linkedPrev, advised>>

(***************************************************************************)
(* Explicit-mapping mode: dotfile_manager.rs.                              *)
(***************************************************************************)
MappingFiles == {DotfilesDir \o <<"zshrc">>, DotfilesDir \o <<"a">>,
                 DotfilesDir \o <<"nvim", "a">>, DotfilesDir \o <<"nvim", "b">>}

Mapping(s, t) == [source |-> s, target |-> t]

MappingUniverse ==
    {Mapping(<<"zshrc">>, <<".zshrc">>), Mapping(<<"a">>, <<"a">>),
     Mapping(<<"nvim">>, <<".config", "nvim">>), Mapping(<<"a">>, <<".config", "a">>)}

MappingLists ==
    UNION {[1..n -> MappingUniverse] : n \in 0..MaxMappings}

Configs ==
    {[state |-> "ok", files |-> l] : l \in MappingLists}
      \cup {[state |-> "missing", files |-> <<>>], [state |-> "malformed", files |-> <<>>]}

Range(l) == {l[i] : i \in 1..Len(l)}

\* where install hands a mapping that is no directory to link_file
MappingLinkDir(m) == Parent(Home \o m.target)

InitMapping ==
    /\ mode = "mapping"
    /\ cfg \in Configs
    /\ \E P \in PreSets({Home \o m.target : m \in Range(cfg.files)}
                          \cup {MappingLinkDir(m) \o <<FileName(m.source)>> :
                                  m \in Range(cfg.files)}
                          \cup {BackupRoot}) :
         \E k \in [P -> PreKinds] :
            fs = BuildFs(MappingFiles
                           \cup (IF cfg.state = "missing" THEN {} ELSE {ConfigPath}),
                         [p \in P |-> PreEntry(p, k[p])])
    /\ rev \in BOOLEAN
    /\ InitCommon

\* load_config: read_to_string, then toml::from_str
LoadConfig(f) ==
    IF ~IsFile(f, ConfigPath) \/ cfg.state # "ok"
    THEN [ok |-> FALSE, files |-> <<>>]
    ELSE [ok |-> TRUE, files |-> cfg.files]

\* dotfile_manager.rs install, to the head of its loop
InstallBeginCfg ==
    /\ mode = "mapping"
    /\ pc = "idle"
    /\ LET r == CreateDirAll(fs, BackupDir(run))
           c == LoadConfig(r.fs)
       IN IF ~r.ok
          THEN Fail(r.fs, "backup_dir")
          ELSE IF ~c.ok
          THEN Fail(r.fs, "config")
          ELSE /\ fs' = r.fs
               /\ pc' = "units"
               /\ units' = c.files
               /\ UNCHANGED <<stack, cur, outcomes>>
    /\ listing' = {}
    /\ UNCHANGED <<mode, rev, cfg, run, start, processed, linked, linkedPrev, advised>>

\* dotfile_manager.rs install, one mapping of config.files
MappingUnit ==
    /\ mode = "mapping"
    /\ pc = "units"
    /\ units # <<>>
    /\ LET mapping == Head(units)
           source == DotfilesDir \o mapping.source
           target == Home \o mapping.target
       IN IF IsDir(fs, source)
          THEN LET r == CreateDirAll(fs, target)
               IN IF ~r.ok
                  THEN Fail(r.fs, "mkdir")
                  ELSE /\ fs' = r.fs
                       /\ pc' = "walk"
                       /\ units' = Tail(units)
                       /\ stack' = <<Frame(source, target, r.fs)>>
                       /\ UNCHANGED <<cur, outcomes>>
          ELSE /\ cur' = [src |-> source, dir |-> MappingLinkDir(mapping)]
               /\ pc' = "link"
               /\ units' = Tail(units)
               /\ UNCHANGED <<fs, stack, outcomes>>
    /\ UNCHANGED <<mode, rev, cfg, run, start, processed, linked, linkedPrev, listing, advised>>

Init == InitTopic \/ InitMapping

Next ==
    \/ InstallBegin
    \/ TopicUnit
    \/ InstallBeginCfg
    \/ MappingUnit
    \/ Walk
    \/ LinkBackup
    \/ LinkSymlink
    \/ Finish
    \/ Rerun
    \/ ListConfigs

Spec == Init /\ [][Next]_vars

(***************************************************************************)
(* Vocabulary of the properties.                                           *)
(***************************************************************************)
\* the regular files of the topic directories, .git apart
TopicFiles(f) ==
    {p \in DOMAIN f : /\ Len(p) >= 3
                      /\ IsPrefix(DotfilesDir, p)
                      /\ p[2] # ".git"
                      /\ f[p].kind = "file"}

GitFiles(f) ==
    {p \in DOMAIN f : /\ Len(p) >= 3
                      /\ IsPrefix(DotfilesDir \o <<".git">>, p)
                      /\ f[p].kind = "file"}

\* the target root the specification gives a topic
ExpectedRoot(topic) ==
    IF topic = "zellij" THEN <<".config", "zellij">>
    ELSE IF topic = "nvim" THEN <<".config", "nvim">>
    ELSE <<>>

\* the home path that corresponds to the source file s of a topic
ExpectedTarget(s) == Home \o ExpectedRoot(s[2]) \o SubSeq(s, 3, Len(s))

Conflicts(p, q) == IsPrefix(p, q) \/ IsPrefix(q, p)

RegularFilesBelow(f, d) ==
    {p \in DOMAIN f : IsPrefix(d, p) /\ p # d /\ f[p].kind = "file"}

\* the regular files of the directories that are mirrored, each with the home
\* path that corresponds to it: the files of the topics, or of the mapped
\* directories
MirrorPairs(f) ==
    IF mode = "topic"
    THEN {[src |-> s, tgt |-> ExpectedTarget(s)] : s \in TopicFiles(f)}
    ELSE UNION {{[src |-> s,
                  tgt |-> Home \o m.target
                            \o SubSeq(s, Len(DotfilesDir \o m.source) + 1, Len(s))] :
                    s \in RegularFilesBelow(f, DotfilesDir \o m.source)} :
                  m \in {x \in Range(cfg.files) : IsDir(f, DotfilesDir \o x.source)}}

\* the mappings of single files, with the path the configuration names and
\* the path link_file is given
FilePairs(f) ==
    IF mode = "topic" THEN {}
    ELSE UNION {{[src |-> DotfilesDir \o m.source, tgt |-> Home \o m.target],
                 [src |-> DotfilesDir \o m.source,
                  tgt |-> MappingLinkDir(m) \o <<FileName(m.source)>>]} :
                  m \in {x \in Range(cfg.files) : ~IsDir(f, DotfilesDir \o x.source)}}

\* no two files are installed at the same path or at one below the other
ConflictFree(P) ==
    \A o1, o2 \in P : o1.src # o2.src => ~Conflicts(o1.tgt, o2.tgt)

NoConflict(f) == ConflictFree(MirrorPairs(f) \cup FilePairs(f))

InBackup(p, r) == IsPrefix(BackupDir(r), p) /\ p # BackupDir(r)

Last(l) == l[Len(l)]

Mirrored(f, o) ==
    /\ o.tgt \in DOMAIN f
    /\ f[o.tgt] = LinkEntry(o.src)
    /\ f[o.src] = FileEntry(o.src)

(***************************************************************************)
(* C8.  Topic resolution: process_topic uses, and get_target_path builds   *)
(* on, <home>/.config/zellij for "zellij", <home>/.config/nvim for "nvim"  *)
(* and <home> for every other name; the result is a function of the name   *)
(* alone and is defined for every name.                                    *)
(***************************************************************************)
C8_TopicResolution ==
    /\ \A r \in processed : r.root = Home \o ExpectedRoot(r.topic)
    /\ \A l \in listing : l.target = Home \o ExpectedRoot(l.topic) \o <<FileName(l.source)>>
    /\ \A t \in TopicNames \cup {"README"} :
         /\ TopicTargetDir(t) = Home \o ExpectedRoot(t)
         /\ \A n \in {"a", "b"} :
              GetTargetPath(t, n) = Home \o ExpectedRoot(t) \o <<n>>

C8_Witness ==
    /\ pc = "done"
    /\ \E r \in processed : r.topic = "nvim"
    /\ \E r \in processed : r.topic \notin {"nvim", "zellij"}
    /\ \E l \in listing : l.topic = "nvim" /\ l.installed

(***************************************************************************)
(* C9.  Topic-mode install never calls process_topic for the top-level     *)
(* directory .git: no symlink to a file below dotfiles/.git is made, and a *)
(* home entry that only a .git file corresponds to stays as it was.  Every *)
(* other top-level directory the loop has reached is processed.            *)
(***************************************************************************)
C9_SkipGit ==
    mode = "topic" =>
       /\ \A r \in processed : r.topic # ".git"
       /\ \A p \in DOMAIN fs :
            fs[p].kind = "symlink" => ~IsPrefix(DotfilesDir \o <<".git">>, fs[p].val)
       /\ LET others == {o.tgt : o \in MirrorPairs(fs)}
          IN \A g \in GitFiles(fs) :
                LET t == Home \o SubSeq(g, 3, Len(g))
                IN (\A x \in others : ~Conflicts(x, t))
                      => /\ t \in DOMAIN fs <=> t \in DOMAIN start
                         /\ t \in DOMAIN fs => fs[t] = start[t]
       /\ pc \in {"units", "walk", "link", "symlink", "done"} =>
            \A d \in Children(fs, DotfilesDir) :
               (/\ IsDir(fs, d)
                /\ FileName(d) # ".git"
                /\ FileName(d) \notin Range(units))
                  => \E r \in processed : r.topic = FileName(d)

C9_Witness ==
    /\ mode = "topic"
    /\ pc = "done"
    /\ GitFiles(fs) # {}
    /\ \E o \in MirrorPairs(fs) : Mirrored(fs, o)
    /\ \E g \in GitFiles(fs) : Home \o SubSeq(g, 3, Len(g)) \in DOMAIN fs

(***************************************************************************)
(* C3.  Directory mirroring completeness, as claimed: after a successful   *)
(* install every regular file of every topic or mapped directory, at any   *)
(* depth, has its target path as a symlink to that file, also when two     *)
(* topics with the same target root hold files with the same relative      *)
(* path.                                                                   *)
(***************************************************************************)
C3_MirroringComplete ==
    pc = "done" => \A o \in MirrorPairs(fs) : Mirrored(fs, o)

(***************************************************************************)
(* C3, amended.  After a successful install every regular file of every    *)
(* topic or mapped directory, at any depth, has its target path as a       *)
(* symlink to that file, provided no two source files are installed at the *)
(* same path or at a path below another's.                                 *)
(***************************************************************************)
C3_MirroringCompleteNoConflict ==
    (pc = "done" /\ NoConflict(fs)) => \A o \in MirrorPairs(fs) : Mirrored(fs, o)

C3_Witness ==
    /\ pc = "done"
    /\ NoConflict(fs)
    /\ Cardinality(MirrorPairs(fs)) >= 2
    /\ \E o \in MirrorPairs(fs) : Len(o.src) = 4 /\ o.src[2] = "nvim" /\ Mirrored(fs, o)
    /\ \E o \in MirrorPairs(fs) : o.tgt \in DOMAIN start

(***************************************************************************)
(* C7.  Idempotence of re-install: when install has succeeded and is run   *)
(* again with a fresh backup directory and succeeds, everything outside    *)
(* the new backup directory (the home symlinks and their targets, the      *)
(* source tree, file contents, earlier backups) is as the first run left   *)
(* it, and every entry of the new backup directory is a symlink that the   *)
(* first run made, under its own name.                                     *)
(***************************************************************************)
C7_ReinstallIdempotent ==
    (pc = "done" /\ run >= 2 /\ outcomes[run - 1] = "done") =>
       /\ \A p \in DOMAIN start : p \in DOMAIN fs /\ fs[p] = start[p]
       /\ \A p \in DOMAIN fs \ DOMAIN start :
            \/ p = BackupDir(run)
            \/ /\ InBackup(p, run)
               /\ \E l \in linkedPrev :
                    fs[p] = LinkEntry(l.src) /\ FileName(l.dest) = FileName(p)
       /\ {l.dest : l \in linked} = {l.dest : l \in linkedPrev}

C7_Witness ==
    /\ pc = "done"
    /\ run = 2
    /\ outcomes[1] = "done"
    /\ \E p \in DOMAIN fs : InBackup(p, 1) /\ fs[p].kind = "file"
    /\ \E p \in DOMAIN fs : InBackup(p, 2) /\ fs[p].kind = "symlink"
    /\ Cardinality(linked) >= 2

(***************************************************************************)
(* C1.  Backup-before-overwrite: after install, every target path that     *)
(* existed before the run and was not already the symlink to its source    *)
(* has its prior entry unchanged in the run's backup directory under the   *)
(* same basename, and is now the symlink to its source file; for every set *)
(* of install units, also those whose files share a basename but have      *)
(* different target directories.  Stated for the sets whose target paths   *)
(* are distinct, where each path has one expected source.                  *)
(***************************************************************************)
C1_BackupBeforeOverwrite ==
    (pc = "done" /\ NoConflict(fs)) =>
       \A o \in MirrorPairs(fs) :
          LET b == BackupDir(run) \o <<FileName(o.tgt)>>
          IN (o.tgt \in DOMAIN start /\ start[o.tgt] # LinkEntry(o.src))
                => /\ b \in DOMAIN fs
                   /\ fs[b] = start[o.tgt]
                   /\ o.tgt \in DOMAIN fs
                   /\ fs[o.tgt] = LinkEntry(o.src)

(***************************************************************************)
(* C4.  Failure isolation: when link_file fails for one file the run goes  *)
(* on, so that at its end every other file whose own link step can succeed *)
(* (its target path and basename are its own, and nothing was at the       *)
(* target) is linked.                                                      *)
(***************************************************************************)
C4_FailureIsolation ==
    (pc = "failed" /\ Last(outcomes) \in {"rename", "symlink"}) =>
       \A o \in MirrorPairs(fs) :
          (/\ \A x \in (MirrorPairs(fs) \cup FilePairs(fs)) \ {o} :
                 /\ ~Conflicts(x.tgt, o.tgt)
                 /\ FileName(x.tgt) # FileName(o.tgt)
           /\ \A q \in Prefixes(o.tgt) :
                 q \in DOMAIN start => q # o.tgt /\ start[q].kind = "dir")
             => Mirrored(fs, o)

(***************************************************************************)
(* C6.  A backup name collision is reported, never overwritten: no entry   *)
(* of a run's backup directory is replaced or removed by a later step.     *)
(***************************************************************************)
C6_BackupNeverReplaced ==
    [][\A p \in DOMAIN fs :
          InBackup(p, run) => (p \in DOMAIN fs' /\ fs'[p] = fs[p])]_vars

(***************************************************************************)
(* C10.  Backup of any existing entry: link_file attempts the symlink      *)
(* only when nothing, of any kind, occupies the destination, because an    *)
(* entry that was there has been moved to the backup directory first.      *)
(***************************************************************************)
C10_DestinationFreeAtSymlink ==
    pc = "symlink" => Dest(cur) \notin DOMAIN fs

(***************************************************************************)
(* C2.  Explicit-mapping mode: for every configuration entry (s, t) whose  *)
(* source <home>/dotfiles/s is a regular file, after install <home>/t is a *)
(* symlink to <home>/dotfiles/s, and an entry that was at <home>/t before  *)
(* the run is in the run's backup directory under basename(t); also when   *)
(* basename(s) differs from basename(t).                                   *)
(***************************************************************************)
C2_FileMappingLinked ==
    pc = "done" =>
       \A m \in Range(cfg.files) :
          LET s == DotfilesDir \o m.source
              t == Home \o m.target
              b == BackupDir(run) \o <<FileName(t)>>
          IN IsFile(start, s) =>
                /\ t \in DOMAIN fs
                /\ fs[t] = LinkEntry(s)
                /\ t \in DOMAIN start => (b \in DOMAIN fs /\ fs[b] = start[t])

(***************************************************************************)
(* C5.  Setup failures abort before any mutation: when install fails       *)
(* because the backup directory cannot be created or because config.toml   *)
(* is missing or malformed, the filesystem is as it was before the call.   *)
(***************************************************************************)
C5_SetupFailureMutatesNothing ==
    (pc = "failed" /\ Last(outcomes) \in {"backup_dir", "config"}) => fs = start

====
